---- MODULE Spec2Model ----
(***************************************************************************)
(* The JWT auxiliary-data extractor of internal/auxdata/jwt.go: the helper *)
(* built by newJWTHelper (keyset registry, verification cache) and the     *)
(* extract call (cache key, parseOptions, doExtract).                      *)
(*                                                                         *)
(* Time is a discrete clock counted in minutes.  A token string is a       *)
(* sequence of symbols: "." is the separator byte, every other symbol is a *)
(* non-empty run of base64url text.                                        *)
(***************************************************************************)
EXTENDS Integers, Sequences, FiniteSets, TLC

\* ---------------------------------------------------------------- bounds
MaxTime == 3
MaxCalls == 3

\* ------------------------------------------------------- program constants
defaultCacheExpiry == 10

\* The callers of extract: one request at a time, or two at once.
SeqCallers == {"c1"}
Callers == {"c1", "c2"}

\* --------------------------------------------------------------- tokens
Dot == "."

\* One decoded claim of a payload, as token.Iterate yields it: KeyIsString
\* tells whether p.Key.(string) succeeds, Name is the key when it does.
Pair(isStr, name, value) == [KeyIsString |-> isStr, Name |-> name, Value |-> value]

\* The decoded payloads.  HasExp/HasNbf tell whether the claim is carried.
Payloads ==
    [ pA |-> [HasExp |-> TRUE,  Exp |-> 3, HasNbf |-> FALSE, Nbf |-> 0,
              Claims |-> << Pair(TRUE, "sub", "u1") >>],
      pB |-> [HasExp |-> TRUE,  Exp |-> 2, HasNbf |-> FALSE, Nbf |-> 0,
              Claims |-> << Pair(TRUE, "sub", "u2"), Pair(TRUE, "fn", "chan") >>],
      pF |-> [HasExp |-> TRUE,  Exp |-> 1, HasNbf |-> FALSE, Nbf |-> 0,
              Claims |-> << Pair(TRUE, "sub", "admin") >>],
      pN |-> [HasExp |-> FALSE, Exp |-> 0, HasNbf |-> TRUE,  Nbf |-> 1,
              Claims |-> << Pair(TRUE, "sub", "u3") >>],
      pX |-> [HasExp |-> TRUE,  Exp |-> 3, HasNbf |-> FALSE, Nbf |-> 0,
              Claims |-> << Pair(TRUE, "sub", "u4"), Pair(FALSE, "", "x") >>] ]

\* What a signature symbol signs: the key that made it and the payload it covers.
Signatures ==
    [ sA |-> [Key |-> "K1", Body |-> "pA"],
      sB |-> [Key |-> "K1", Body |-> "pB"],
      sN |-> [Key |-> "K1", Body |-> "pN"],
      sX |-> [Key |-> "K1", Body |-> "pX"] ]

Compact(p, s) == << "h", Dot, p, Dot, s >>

tA == Compact("pA", "sA")
tB == Compact("pB", "sB")
tF == Compact("pF", "sA")
tN == Compact("pN", "sN")
tX == Compact("pX", "sX")
tTrail == << "h", Dot, "pA", Dot >>
tNoDot == << "h" >>
tEmpty == << >>

TokenStrings == { tA, tB, tF, tN, tX, tTrail, tNoDot, tEmpty }

KeySetIds == { "", "ks1", "ks2" }

\* The request's auxData.jwt: absent (nil) or a token string with a keyset id.
NoJWT == [Present |-> FALSE, Token |-> << >>, KeySetId |-> ""]
JWTs == { NoJWT } \cup
        { [Present |-> TRUE, Token |-> t, KeySetId |-> k] : t \in TokenStrings, k \in KeySetIds }

\* strings.LastIndexByte(s, '.') as a 1-based position, 0 when there is none
\* (Go's index is this position minus one).
LastIndexByte(s) ==
    LET ds == { i \in 1..Len(s) : s[i] = Dot }
    IN  IF ds = {} THEN 0 ELSE CHOOSE i \in ds : \A k \in ds : k <= i

\* The segments of a token string between the separators.
RECURSIVE Split(_)
Split(s) ==
    LET ds == { i \in 1..Len(s) : s[i] = Dot }
    IN  IF ds = {} THEN << s >>
        ELSE LET i == LastIndexByte(s)
             IN  Append(Split(SubSeq(s, 1, i - 1)), SubSeq(s, i + 1, Len(s)))

\* ------------------------------------------------------ finite maps
EmptyMap == << >>
MapPut(m, k, v) == (k :> v) @@ m
MapHas(m, k) == k \in DOMAIN m

\* ------------------------------------------------ jwt.ParseString (jwx)
\* The parse options of one jwt.ParseString call: with Verify the signature is
\* checked against KeySet, and the time claims are validated in both modes
\* (jwt.WithValidate(true) is in every option list the helper builds).
SkipVerify == [Verify |-> FALSE, KeySet |-> {}]
WithKeySet(jwks) == [Verify |-> TRUE, KeySet |-> jwks]

\* A compact serialization: header, payload and signature segments, the
\* signature segment possibly empty.
WellFormed(segs) ==
    /\ Len(segs) = 3
    /\ Len(segs[1]) = 1
    /\ Len(segs[2]) = 1
    /\ segs[2][1] \in DOMAIN Payloads
    /\ Len(segs[3]) <= 1

\* The signature segment is a signature over this token's own payload made by
\* a key of the keyset.
VerifySignature(segs, jwks) ==
    /\ Len(segs[3]) = 1
    /\ segs[3][1] \in DOMAIN Signatures
    /\ Signatures[segs[3][1]].Body = segs[2][1]
    /\ Signatures[segs[3][1]].Key \in jwks

\* exp and nbf against the clock (variant: nbf alone).
ValidateNoExp(p, now) == p.HasNbf => now >= p.Nbf
Validate(p, now) ==
    /\ p.HasExp => now < p.Exp
    /\ p.HasNbf => now >= p.Nbf

NoToken == [Ok |-> FALSE, Payload |-> "none"]
ParseString(s, opts, now) ==
    LET segs == Split(s)
    IN  IF ~WellFormed(segs) THEN NoToken
        ELSE IF opts.Verify /\ ~VerifySignature(segs, opts.KeySet) THEN NoToken
        ELSE IF ~Validate(Payloads[segs[2][1]], now) THEN NoToken
        ELSE [Ok |-> TRUE, Payload |-> segs[2][1]]

\* ------------------------------------------------- claims conversion
\* util.ToStructPB: the generic value conversion; values of an unsupported
\* shape ("chan") are refused.
ToStructPB(v) ==
    IF v = "chan" THEN [Err |-> TRUE, Value |-> [Kind |-> "null", Str |-> ""]]
    ELSE [Err |-> FALSE, Value |-> [Kind |-> "string", Str |-> v]]

\* The claims loop of doExtract.  A pair whose key is not a string is logged
\* and then handled like any other pair, under the zero value of key.
\* (variant: a value that does not convert is stored all the same.)
RECURSIVE claimsLoopNoContinue(_, _)
claimsLoopNoContinue(pairs, m) ==
    IF pairs = << >> THEN m
    ELSE LET p == Head(pairs)
             key == IF p.KeyIsString THEN p.Name ELSE ""
             value == ToStructPB(p.Value)
         IN  claimsLoopNoContinue(Tail(pairs), MapPut(m, key, value.Value))
RECURSIVE claimsLoop(_, _)
claimsLoop(pairs, m) ==
    IF pairs = << >> THEN m
    ELSE LET p == Head(pairs)
             key == IF p.KeyIsString THEN p.Name ELSE ""
             value == ToStructPB(p.Value)
         IN  IF value.Err THEN claimsLoop(Tail(pairs), m)
             ELSE claimsLoop(Tail(pairs), MapPut(m, key, value.Value))

\* ------------------------------------------------------------ keysets
\* Inline key data and key files a LocalSource can name: whether the base64
\* text decodes, whether the bytes parse as keys and the keys they hold.
KeyData ==
    [ d1   |-> [Decodes |-> TRUE,  Parses |-> TRUE,  Keys |-> {"K1"}],
      d2   |-> [Decodes |-> TRUE,  Parses |-> TRUE,  Keys |-> {"K2"}],
      dB64 |-> [Decodes |-> FALSE, Parses |-> FALSE, Keys |-> {}],
      dKey |-> [Decodes |-> TRUE,  Parses |-> FALSE, Keys |-> {}] ]
KeyFiles ==
    [ f1    |-> [Readable |-> TRUE,  Keys |-> {"K1"}],
      fGone |-> [Readable |-> FALSE, Keys |-> {}] ]

\* The keys a remote URL serves once a fetch of it succeeds.
RemoteKeys == [ u1 |-> {"K1"}, u2 |-> {"K2"} ]

NoRemote == [Set |-> FALSE, URL |-> "", RefreshInterval |-> 0]
NoLocal == [Set |-> FALSE, Data |-> "", File |-> ""]
Remote(url, interval) == [Set |-> TRUE, URL |-> url, RefreshInterval |-> interval]
LocalData(d) == [Set |-> TRUE, Data |-> d, File |-> ""]
LocalFile(f) == [Set |-> TRUE, Data |-> "", File |-> f]
KeySetConf(id, remote, local) == [ID |-> id, Remote |-> remote, Local |-> local]

\* A keySet value of the registry.  A local keyset holds the outcome of its
\* construction: Err "none" and the keys, or the error every call replays.
\* A remote keyset holds the jwk.Cache it was given (Cache: which one, counted
\* from 1 in the order of creation) and its URL.
localKeySet(err, keys) ==
    [Kind |-> "local", URL |-> "", Cache |-> 0, Err |-> err, Keys |-> keys]
remoteKeySet(cache, url) ==
    [Kind |-> "remote", URL |-> url, Cache |-> cache, Err |-> "none", Keys |-> {}]

\* (variant: key data that does not parse gives an empty keyset, no error.)
newLocalKeySetLenient(src) ==
    IF src.Data # ""
    THEN IF ~KeyData[src.Data].Decodes THEN localKeySet("ERR-261", {})
         ELSE localKeySet("none", KeyData[src.Data].Keys)
    ELSE IF ~(src.File \in DOMAIN KeyFiles /\ KeyFiles[src.File].Readable)
         THEN localKeySet("ERR-263", {})
         ELSE localKeySet("none", KeyFiles[src.File].Keys)

newLocalKeySet(src) ==
    IF src.Data # ""
    THEN IF ~KeyData[src.Data].Decodes THEN localKeySet("ERR-261", {})
         ELSE IF ~KeyData[src.Data].Parses THEN localKeySet("ERR-262", {})
         ELSE localKeySet("none", KeyData[src.Data].Keys)
    ELSE IF ~(src.File \in DOMAIN KeyFiles /\ KeyFiles[src.File].Readable)
         THEN localKeySet("ERR-263", {})
         ELSE localKeySet("none", KeyFiles[src.File].Keys)

\* The registration newRemoteKeySet makes with the shared jwk.Cache.
Registration(src) ==
    [URL |-> src.URL,
     Interval |-> IF src.RefreshInterval > 0 THEN src.RefreshInterval ELSE 0]

\* ------------------------------------------------------- newJWTHelper
NilConf == [Nil |-> TRUE, DisableVerification |-> FALSE, KeySets |-> << >>, CacheSize |-> 0]
JWTConf(disable, keySets, cacheSize) ==
    [Nil |-> FALSE, DisableVerification |-> disable, KeySets |-> keySets, CacheSize |-> cacheSize]

\* The loop over conf.KeySets: acc carries jh.keySets, the number of jwk.Cache
\* objects created so far (the variable jwkCache holds the last one), the id
\* of the keyset the first was created for and the registrations made.
\* (variant: every remote keyset gets a jwk.Cache of its own.)
RECURSIVE buildKeySetsCachePerKeySet(_, _)
buildKeySetsCachePerKeySet(kss, acc) ==
    IF kss = << >> THEN acc
    ELSE LET ks == Head(kss)
         IN  IF ks.Remote.Set
             THEN buildKeySetsCachePerKeySet(Tail(kss),
                     [acc EXCEPT !.jwkCaches = @ + 1,
                                 !.cacheFor = IF acc.jwkCaches = 0 THEN ks.ID ELSE @,
                                 !.registered = @ \cup {Registration(ks.Remote)},
                                 !.keySets = MapPut(@, ks.ID,
                                                remoteKeySet(acc.jwkCaches + 1, ks.Remote.URL))])
             ELSE IF ks.Local.Set
             THEN buildKeySetsCachePerKeySet(Tail(kss),
                     [acc EXCEPT !.keySets = MapPut(@, ks.ID, newLocalKeySet(ks.Local))])
             ELSE buildKeySetsCachePerKeySet(Tail(kss), acc)

RECURSIVE buildKeySets(_, _)
buildKeySets(kss, acc) ==
    IF kss = << >> THEN acc
    ELSE LET ks == Head(kss)
             jwkCache == IF acc.jwkCaches = 0 THEN 1 ELSE acc.jwkCaches
         IN  IF ks.Remote.Set
             THEN buildKeySets(Tail(kss),
                     [acc EXCEPT !.jwkCaches = jwkCache,
                                 !.cacheFor = IF acc.jwkCaches = 0 THEN ks.ID ELSE @,
                                 !.registered = @ \cup {Registration(ks.Remote)},
                                 !.keySets = MapPut(@, ks.ID,
                                                remoteKeySet(jwkCache, ks.Remote.URL))])
             ELSE IF ks.Local.Set
             THEN buildKeySets(Tail(kss),
                     [acc EXCEPT !.keySets = MapPut(@, ks.ID, newLocalKeySet(ks.Local))])
             ELSE buildKeySets(Tail(kss), acc)

NoKeySets == [keySets |-> EmptyMap, jwkCaches |-> 0, cacheFor |-> "", registered |-> {}]

\* (variants: the cache is built whether or not verification is disabled;
\* conf.DisableVerification is not read, verify stays true.)
newJWTHelperCacheFirst(cnf) ==
    IF cnf.Nil
    THEN [verify |-> TRUE, hasCache |-> FALSE, cacheSize |-> 0] @@ NoKeySets
    ELSE IF cnf.DisableVerification
    THEN [verify |-> FALSE, hasCache |-> cnf.CacheSize > 0,
          cacheSize |-> IF cnf.CacheSize > 0 THEN cnf.CacheSize ELSE 0] @@ NoKeySets
    ELSE [verify |-> TRUE, hasCache |-> cnf.CacheSize > 0,
          cacheSize |-> IF cnf.CacheSize > 0 THEN cnf.CacheSize ELSE 0]
         @@ buildKeySets(cnf.KeySets, NoKeySets)
newJWTHelperKeepVerify(cnf) ==
    IF cnf.Nil
    THEN [verify |-> TRUE, hasCache |-> FALSE, cacheSize |-> 0] @@ NoKeySets
    ELSE [verify |-> TRUE, hasCache |-> cnf.CacheSize > 0,
          cacheSize |-> IF cnf.CacheSize > 0 THEN cnf.CacheSize ELSE 0]
         @@ buildKeySets(cnf.KeySets, NoKeySets)

newJWTHelper(cnf) ==
    IF cnf.Nil
    THEN [verify |-> TRUE, hasCache |-> FALSE, cacheSize |-> 0] @@ NoKeySets
    ELSE IF cnf.DisableVerification
    THEN [verify |-> FALSE, hasCache |-> FALSE, cacheSize |-> 0] @@ NoKeySets
    ELSE [verify |-> TRUE, hasCache |-> cnf.CacheSize > 0,
          cacheSize |-> IF cnf.CacheSize > 0 THEN cnf.CacheSize ELSE 0]
         @@ buildKeySets(cnf.KeySets, NoKeySets)

\* The configurations the helper is built from.
LocalKs1 == KeySetConf("ks1", NoRemote, LocalData("d1"))
LocalKs2 == KeySetConf("ks2", NoRemote, LocalData("d2"))
RemoteKs1 == KeySetConf("ks1", Remote("u1", 0), NoLocal)
BrokenKs1 == KeySetConf("ks1", NoRemote, LocalData("dKey"))
FileKs2 == KeySetConf("ks2", NoRemote, LocalFile("f1"))
Confs ==
    { NilConf,
      JWTConf(FALSE, << LocalKs1 >>, 1),
      JWTConf(FALSE, << LocalKs1, LocalKs2 >>, 2),
      JWTConf(TRUE,  << LocalKs1 >>, 1),
      JWTConf(FALSE, << RemoteKs1 >>, 1),
      JWTConf(FALSE, << BrokenKs1, FileKs2 >>, 0) }

\* ---------------------------------------- the verification cache (ARC)
\* mkCache builds gcache.New(size).ARC(): the recency and frequency lists t1
\* and t2, their ghost lists b1 and b2, the target size part of t1, and the
\* items with their expiration instants.  Every operation returns the cache
\* it leaves and how often it called the AddedFunc and the EvictedFunc.
mkCache(size) ==
    [size |-> size, t1 |-> << >>, t2 |-> << >>, b1 |-> << >>, b2 |-> << >>,
     part |-> 0, items |-> EmptyMap]

Has(l, k) == \E i \in 1..Len(l) : l[i] = k
Remove(l, k) == SelectSeq(l, LAMBDA x : x # k)
PushFront(l, k) == << k >> \o Remove(l, k)
Back(l) == l[Len(l)]
RemoveTail(l) == SubSeq(l, 1, Len(l) - 1)
MapDelete(m, k) == [x \in DOMAIN m \ {k} |-> m[x]]
Min(a, b) == IF a < b THEN a ELSE b
Max(a, b) == IF a > b THEN a ELSE b

isCacheFull(c) == Len(c.t1) + Len(c.t2) >= c.size

\* item.IsExpired: the expiration instant lies before now.
IsExpiredInclusive(c, k, now) == c.items[k] <= now
IsExpired(c, k, now) == c.items[k] < now

CacheOut(c, added, evicted) == [cache |-> c, added |-> added, evicted |-> evicted]

\* Deleting an item, with the EvictedFunc call when there was one.
evictItem(c, old) ==
    IF MapHas(c.items, old)
    THEN CacheOut([c EXCEPT !.items = MapDelete(@, old)], 0, 1)
    ELSE CacheOut(c, 0, 0)

arcReplace(c, key) ==
    IF ~isCacheFull(c) THEN CacheOut(c, 0, 0)
    ELSE IF Len(c.t1) > 0 /\ ((Has(c.b2, key) /\ Len(c.t1) = c.part) \/ Len(c.t1) > c.part)
    THEN evictItem([c EXCEPT !.t1 = RemoveTail(@), !.b1 = PushFront(@, Back(c.t1))], Back(c.t1))
    ELSE IF Len(c.t2) > 0
    THEN evictItem([c EXCEPT !.t2 = RemoveTail(@), !.b2 = PushFront(@, Back(c.t2))], Back(c.t2))
    ELSE evictItem([c EXCEPT !.t1 = RemoveTail(@), !.b1 = PushFront(@, Back(c.t1))], Back(c.t1))

\* cache.GetIFPresent(key): an expired item found in t1 or t2 is dropped to
\* the ghost list, with an EvictedFunc call.
GetIFPresent(c, key, now) ==
    IF Has(c.t1, key)
    THEN IF ~IsExpired(c, key, now)
         THEN [found |-> TRUE] @@
              CacheOut([c EXCEPT !.t1 = Remove(@, key), !.t2 = PushFront(@, key)], 0, 0)
         ELSE [found |-> FALSE] @@
              CacheOut([c EXCEPT !.t1 = Remove(@, key), !.b1 = PushFront(@, key),
                                 !.items = MapDelete(@, key)], 0, 1)
    ELSE IF Has(c.t2, key)
    THEN IF ~IsExpired(c, key, now)
         THEN [found |-> TRUE] @@ CacheOut([c EXCEPT !.t2 = PushFront(@, key)], 0, 0)
         ELSE [found |-> FALSE] @@
              CacheOut([c EXCEPT !.t2 = Remove(@, key), !.b2 = PushFront(@, key),
                                 !.items = MapDelete(@, key)], 0, 1)
    ELSE [found |-> FALSE] @@ CacheOut(c, 0, 0)

\* The insertion of a key that is in none of the four lists.
arcInsertNew(c, key) ==
    LET total == Len(c.t1) + Len(c.b1) + Len(c.t2) + Len(c.b2)
        r == IF isCacheFull(c) /\ Len(c.t1) + Len(c.b1) = c.size
             THEN IF Len(c.t1) < c.size
                  THEN arcReplace([c EXCEPT !.b1 = RemoveTail(@)], key)
                  ELSE evictItem([c EXCEPT !.t1 = RemoveTail(@)], Back(c.t1))
             ELSE IF total >= c.size
                  THEN IF total = 2 * c.size
                       THEN IF Len(c.b2) > 0
                            THEN arcReplace([c EXCEPT !.b2 = RemoveTail(@)], key)
                            ELSE arcReplace([c EXCEPT !.b1 = RemoveTail(@)], key)
                       ELSE arcReplace(c, key)
                  ELSE CacheOut(c, 0, 0)
    IN  CacheOut([r.cache EXCEPT !.t1 = PushFront(@, key)], 1, r.evicted)

\* cache.SetWithExpire(key, cacheEntry, expiry) at instant now: the AddedFunc
\* is called on every set, of a new key and of a key already held.
\* (variant: a key is inserted as new whether or not the cache holds it.)
SetWithExpireAsNew(c, key, expiry, now) ==
    arcInsertNew([c EXCEPT !.items = MapPut(@, key, now + expiry)], key)
SetWithExpire(c, key, expiry, now) ==
    LET c1 == [c EXCEPT !.items = MapPut(@, key, now + expiry)]
    IN  IF Has(c.t1, key) \/ Has(c.t2, key) THEN CacheOut(c1, 1, 0)
        ELSE IF Has(c.b1, key)
        THEN LET c2 == [c1 EXCEPT !.part = Min(c.size, c.part + Max(Len(c.b2) \div Len(c.b1), 1))]
                 r == arcReplace(c2, key)
             IN  CacheOut([r.cache EXCEPT !.b1 = Remove(@, key), !.t2 = PushFront(@, key)],
                          1, r.evicted)
        ELSE IF Has(c.b2, key)
        THEN LET c2 == [c1 EXCEPT !.part = Max(0, c.part - Max(Len(c.b1) \div Len(c.b2), 1))]
                 r == arcReplace(c2, key)
             IN  CacheOut([r.cache EXCEPT !.b2 = Remove(@, key), !.t2 = PushFront(@, key)],
                          1, r.evicted)
        ELSE arcInsertNew(c1, key)

\* ------------------------------------------------------------- state
VARIABLES
    conf,       \* the *JWTConf the helper was built from
    jh,         \* the jwtHelper: verify, keySets, the cache's presence and size
    cache,      \* jh.cache, the ARC verification cache
    gauge,      \* the cache size gauge (metrics.MakeCacheGauge)
    hits,       \* CacheAccessCount recorded with result "hit"
    misses,     \* CacheAccessCount recorded with result "miss"
    fetched,    \* the URLs the shared jwk.Cache holds key material for
    fetchFailed, \* history: the (URL, token) of the calls whose fetch failed
    now,        \* the clock
    started,    \* the number of extract calls made so far
    call,       \* per caller: the position and the locals of its extract call
                \* (seen: history, the token had a verified extract before the call;
                \* trace: history, the cache and keyset operations the call has made;
                \* before: history, the cache entries when the call began)
    verified,   \* history: the token strings whose signature a call has verified
    succeeded,  \* history: token string -> the claims of its first verified extract
    writer      \* history: cache key -> the token string that last recorded it

vars == << conf, jh, cache, gauge, hits, misses, fetched, fetchFailed, now, started, call,
           verified, succeeded, writer >>

NoRet == [Kind |-> "none", Err |-> "", Claims |-> EmptyMap]
RetNil == [Kind |-> "nil", Err |-> "", Claims |-> EmptyMap]
RetErr(e) == [Kind |-> "error", Err |-> e, Claims |-> EmptyMap]
RetClaims(m) == [Kind |-> "claims", Err |-> "", Claims |-> m]

IdleCall ==
    [pc |-> "idle", jwt |-> NoJWT, cacheKey |-> << >>, probe |-> "none",
     ks |-> "none", resolved |-> FALSE, ksErr |-> "none", opts |-> SkipVerify,
     parsed |-> FALSE, parsedAt |-> 0, token |-> NoToken, inserted |-> FALSE,
     ret |-> NoRet, seen |-> FALSE, trace |-> << >>, before |-> << >>]

\* The helper as newJWTHelper leaves it, before any call.
Constructed ==
    /\ jh = newJWTHelper(conf)
    /\ cache = mkCache(jh.cacheSize)
    /\ gauge = 0
    /\ hits = 0
    /\ misses = 0
    /\ fetched = {}
    /\ fetchFailed = {}
    /\ now = 0
    /\ started = 0
    /\ call = [c \in Callers |-> IdleCall]
    /\ verified = {}
    /\ succeeded = EmptyMap
    /\ writer = EmptyMap

Init == conf \in Confs /\ Constructed

\* --------------------------------------------------------------- extract
\* The cache key of extract: the token from its last '.' on, when there is a
\* cache and the '.' is not the first byte.
CacheKeyWhole(hasCache, tok) == IF hasCache THEN tok ELSE << >>
CacheKey(hasCache, tok) ==
    IF hasCache /\ LastIndexByte(tok) - 1 > 0
    THEN SubSeq(tok, LastIndexByte(tok), Len(tok))
    ELSE << >>

\* "No auxiliary credential supplied": auxJWT == nil || auxJWT.Token == ""
\* (variant: the nil test alone).
NoCredentialNilOnly(jwt) == ~jwt.Present
NoCredential(jwt) == ~jwt.Present \/ jwt.Token = << >>

\* extract up to the call of parseOptions.
Extract(c, jwt) ==
    /\ call[c].pc = "idle"
    /\ started < MaxCalls
    /\ started' = started + 1
    /\ IF NoCredential(jwt)
       THEN call' = [call EXCEPT ![c] = [IdleCall EXCEPT !.pc = "done", !.jwt = jwt,
                                                         !.ret = RetNil]]
       ELSE call' = [call EXCEPT ![c] = [IdleCall EXCEPT !.pc = "probe", !.jwt = jwt,
                                            !.cacheKey = CacheKey(jh.hasCache, jwt.Token),
                                            !.seen = MapHas(succeeded, jwt.Token),
                                            !.before = cache.items]]
    /\ UNCHANGED << conf, jh, cache, gauge, hits, misses, fetched, fetchFailed, now,
                    verified, succeeded, writer >>

\* The probe found the key: err == nil (variant: the test inverted).
CacheHitInverted(g) == ~g.found
CacheHit(g) == g.found

\* Where parseOptions goes after the probe: a hit returns the options at once
\* (variant: it does not return).
AfterProbeNoReturn(hit) == "resolve"
AfterProbe(hit) == IF hit THEN "parse" ELSE "resolve"

\* parseOptions up to the keyset selection: the verify switch and the probe.
Probe(c) ==
    /\ call[c].pc = "probe"
    /\ IF ~jh.verify
       THEN /\ call' = [call EXCEPT ![c].pc = "parse", ![c].opts = SkipVerify]
            /\ UNCHANGED << cache, gauge, hits, misses >>
       ELSE IF call[c].cacheKey # << >>
       THEN LET g == GetIFPresent(cache, call[c].cacheKey, now)
            IN  /\ cache' = g.cache
                /\ gauge' = gauge - g.evicted
                /\ IF CacheHit(g)
                   THEN /\ hits' = hits + 1
                        /\ misses' = misses
                        /\ call' = [call EXCEPT ![c].pc = AfterProbe(TRUE),
                                                ![c].probe = "hit", ![c].opts = SkipVerify,
                                                ![c].trace = Append(@, "probe")]
                   ELSE /\ misses' = misses + 1
                        /\ hits' = hits
                        /\ call' = [call EXCEPT ![c].pc = AfterProbe(FALSE),
                                                ![c].probe = "miss",
                                                ![c].trace = Append(@, "probe")]
       ELSE /\ call' = [call EXCEPT ![c].pc = "resolve"]
            /\ UNCHANGED << cache, gauge, hits, misses >>
    /\ UNCHANGED << conf, jh, fetched, fetchFailed, now, started, verified, succeeded, writer >>

\* The keyset selection of parseOptions: the id chosen, or the error.
Selected(id) == [Err |-> "none", ID |-> id]
NotSelected(e) == [Err |-> e, ID |-> "none"]
\* Variants: any keyset serves when the id settles nothing; without an id the
\* registry need only be non-empty; an unknown id falls back to a sole keyset.
SelectKeySetAny(keySets, keySetId) ==
    IF keySetId # "" /\ MapHas(keySets, keySetId) THEN Selected(keySetId)
    ELSE IF DOMAIN keySets = {} THEN NotSelected("ERR-256")
    ELSE Selected(CHOOSE id \in DOMAIN keySets : TRUE)
SelectKeySetFirst(keySets, keySetId) ==
    IF keySetId = ""
    THEN IF Cardinality(DOMAIN keySets) = 0 THEN NotSelected("ERR-256")
         ELSE Selected(CHOOSE id \in DOMAIN keySets : TRUE)
    ELSE IF ~MapHas(keySets, keySetId) THEN NotSelected("ERR-258")
         ELSE Selected(keySetId)
SelectKeySetFallback(keySets, keySetId) ==
    IF keySetId = "" \/ (~MapHas(keySets, keySetId) /\ Cardinality(DOMAIN keySets) = 1)
    THEN IF Cardinality(DOMAIN keySets) # 1 THEN NotSelected("ERR-256")
         ELSE Selected(CHOOSE id \in DOMAIN keySets : TRUE)
    ELSE IF ~MapHas(keySets, keySetId) THEN NotSelected("ERR-258")
         ELSE Selected(keySetId)
SelectKeySet(keySets, keySetId) ==
    IF keySetId = ""
    THEN IF Cardinality(DOMAIN keySets) # 1 THEN NotSelected("ERR-256")
         ELSE Selected(CHOOSE id \in DOMAIN keySets : TRUE)
    ELSE IF ~MapHas(keySets, keySetId) THEN NotSelected("ERR-258")
         ELSE Selected(keySetId)

\* A fetch for the URL has failed before.
FailedBefore(url) == \E f \in fetchFailed : f[1] = url

\* What jwk.Cache.Get can do for a URL: serve what it holds, or fetch, and the
\* fetch succeeds or fails whatever happened before (variant: a failed fetch
\* is remembered and not tried again).
FetchOutcomesRemembered(held, failedBefore) ==
    IF held THEN {TRUE} ELSE IF failedBefore THEN {FALSE} ELSE BOOLEAN
FetchOutcomes(held, failedBefore) == IF held THEN {TRUE} ELSE BOOLEAN

\* parseOptions from the keyset selection on: ks.keySet(ctx) of the selected
\* keyset.  A remote keyset the shared cache holds nothing for yet is fetched,
\* and the fetch succeeds or fails.
Resolve(c) ==
    /\ call[c].pc = "resolve"
    /\ LET sel == SelectKeySet(jh.keySets, call[c].jwt.KeySetId)
       IN  IF sel.Err # "none"
           THEN /\ call' = [call EXCEPT ![c].pc = "done", ![c].ret = RetErr(sel.Err)]
                /\ UNCHANGED << fetched, fetchFailed >>
           ELSE LET ks == jh.keySets[sel.ID]
                IN  IF ks.Kind = "local"
                    THEN /\ UNCHANGED << fetched, fetchFailed >>
                         /\ IF ks.Err # "none"
                            THEN call' = [call EXCEPT ![c].pc = "done", ![c].ks = sel.ID,
                                             ![c].resolved = TRUE,
                                             ![c].trace = Append(@, "resolve"),
                                             ![c].ksErr = ks.Err,
                                             ![c].ret = RetErr("ERR-259")]
                            ELSE call' = [call EXCEPT ![c].pc = "parse", ![c].ks = sel.ID,
                                             ![c].resolved = TRUE,
                                             ![c].trace = Append(@, "resolve"),
                                             ![c].opts = WithKeySet(ks.Keys)]
                    ELSE \E fetchOk \in FetchOutcomes(ks.URL \in fetched,
                                                      FailedBefore(ks.URL)) :
                         IF fetchOk
                         THEN /\ fetched' = fetched \cup {ks.URL}
                              /\ fetchFailed' = fetchFailed
                              /\ call' = [call EXCEPT ![c].pc = "parse", ![c].ks = sel.ID,
                                             ![c].resolved = TRUE,
                                             ![c].trace = Append(@, "resolve"),
                                             ![c].opts = WithKeySet(RemoteKeys[ks.URL])]
                         ELSE /\ fetched' = fetched
                              /\ fetchFailed' = fetchFailed \cup {<< ks.URL, call[c].jwt.Token >>}
                              /\ call' = [call EXCEPT ![c].pc = "done", ![c].ks = sel.ID,
                                             ![c].resolved = TRUE,
                                             ![c].trace = Append(@, "resolve"),
                                             ![c].ksErr = "fetch",
                                             ![c].ret = RetErr("ERR-259")]
    /\ UNCHANGED << conf, jh, cache, gauge, hits, misses, now, started,
                    verified, succeeded, writer >>

\* doExtract: jwt.ParseString under the chosen options.
Parse(c) ==
    /\ call[c].pc = "parse"
    /\ LET tok == call[c].jwt.Token
           token == ParseString(tok, call[c].opts, now)
           segs == Split(tok)
       IN  /\ IF token.Ok
              THEN call' = [call EXCEPT ![c].pc = "finish", ![c].parsed = TRUE,
                                        ![c].parsedAt = now, ![c].token = token,
                                        ![c].trace = Append(@, "parse")]
              ELSE call' = [call EXCEPT ![c].pc = "done", ![c].parsed = TRUE,
                                        ![c].parsedAt = now, ![c].ret = RetErr("ERR-260"),
                                        ![c].trace = Append(@, "parse")]
           /\ verified' = IF /\ call[c].opts.Verify
                             /\ WellFormed(segs)
                             /\ VerifySignature(segs, call[c].opts.KeySet)
                          THEN verified \cup {tok} ELSE verified
    /\ UNCHANGED << conf, jh, cache, gauge, hits, misses, fetched, fetchFailed, now, started,
                    succeeded, writer >>

\* The TTL doExtract records the cache key with.
CacheExpiryNoFloor(p, t) == IF p.HasExp THEN p.Exp - t ELSE defaultCacheExpiry
CacheExpiry(p, t) ==
    IF p.HasExp /\ p.Exp - t > 0 THEN p.Exp - t ELSE defaultCacheExpiry

\* doExtract after a successful parse: the cache record and the claims loop.
Finish(c) ==
    /\ call[c].pc = "finish"
    /\ LET tok == call[c].jwt.Token
           key == call[c].cacheKey
           p == Payloads[call[c].token.Payload]
           claims == claimsLoop(p.Claims, EmptyMap)
       IN  /\ IF key # << >>
              THEN LET r == SetWithExpire(cache, key, CacheExpiry(p, now), now)
                   IN  /\ cache' = r.cache
                       /\ gauge' = gauge + r.added - r.evicted
                       /\ writer' = MapPut(writer, key, tok)
              ELSE UNCHANGED << cache, gauge, writer >>
           /\ call' = [call EXCEPT ![c].pc = "done", ![c].inserted = key # << >>,
                                   ![c].ret = RetClaims(claims),
                                   ![c].trace = IF key # << >> THEN Append(@, "insert") ELSE @]
           /\ succeeded' = IF call[c].opts.Verify /\ ~MapHas(succeeded, tok)
                           THEN MapPut(succeeded, tok, claims) ELSE succeeded
    /\ UNCHANGED << conf, jh, hits, misses, fetched, fetchFailed, now, started, verified >>

\* The call has returned to its caller.
Return(c) ==
    /\ call[c].pc = "done"
    /\ call' = [call EXCEPT ![c] = IdleCall]
    /\ UNCHANGED << conf, jh, cache, gauge, hits, misses, fetched, fetchFailed, now, started,
                    verified, succeeded, writer >>

\* Time passes.
Tick ==
    /\ now < MaxTime
    /\ now' = now + 1
    /\ UNCHANGED << conf, jh, cache, gauge, hits, misses, fetched, fetchFailed, started, call,
                    verified, succeeded, writer >>

\* Requests served one at a time, under every configuration.
Next ==
    \/ \E c \in SeqCallers, jwt \in JWTs : Extract(c, jwt)
    \/ \E c \in SeqCallers : Probe(c)
    \/ \E c \in SeqCallers : Resolve(c)
    \/ \E c \in SeqCallers : Parse(c)
    \/ \E c \in SeqCallers : Finish(c)
    \/ \E c \in SeqCallers : Return(c)
    \/ Tick

Spec == Init /\ [][Next]_vars

\* Two requests served at once by a helper with one local keyset and a cache
\* of one entry, the steps of their extract calls interleaved.
ConcConf == JWTConf(FALSE, << LocalKs1 >>, 1)
ConcJWTs == { [Present |-> TRUE, Token |-> t, KeySetId |-> ""] : t \in { tA, tB } }

InitConc == Init /\ conf = ConcConf

NextConc ==
    \/ \E c \in Callers, jwt \in ConcJWTs : Extract(c, jwt)
    \/ \E c \in Callers : Probe(c)
    \/ \E c \in Callers : Resolve(c)
    \/ \E c \in Callers : Parse(c)
    \/ \E c \in Callers : Finish(c)
    \/ \E c \in Callers : Return(c)
    \/ Tick

SpecConc == InitConc /\ [][NextConc]_vars

\* Helpers built from every registry of up to two keysets, each remote, local
\* or configured with both sources, with verification on or off, and from no
\* configuration; requests name either keyset.
BuildSources ==
    { [Remote |-> Remote("u1", 0), Local |-> NoLocal],
      [Remote |-> Remote("u2", 2), Local |-> NoLocal],
      [Remote |-> NoRemote, Local |-> LocalData("d1")],
      [Remote |-> Remote("u1", 0), Local |-> LocalData("d2")] }
BuildRegistries ==
    { << >> } \cup
    { << KeySetConf("ks1", a.Remote, a.Local) >> : a \in BuildSources } \cup
    { << KeySetConf("ks1", a.Remote, a.Local), KeySetConf("ks2", b.Remote, b.Local) >> :
        a \in BuildSources, b \in BuildSources }
BuildConfs ==
    { NilConf } \cup
    { JWTConf(d, r, 1) : d \in BOOLEAN, r \in BuildRegistries }
BuildJWTs == { [Present |-> TRUE, Token |-> tA, KeySetId |-> k] : k \in { "ks1", "ks2" } }

InitBuild == conf \in BuildConfs /\ Constructed

NextBuild ==
    \/ \E c \in SeqCallers, jwt \in BuildJWTs : Extract(c, jwt)
    \/ \E c \in SeqCallers : Probe(c)
    \/ \E c \in SeqCallers : Resolve(c)
    \/ \E c \in SeqCallers : Parse(c)
    \/ \E c \in SeqCallers : Finish(c)
    \/ \E c \in SeqCallers : Return(c)
    \/ Tick

SpecBuild == InitBuild /\ [][NextBuild]_vars

\* ================================================================ claims
\* The decoded payload of a well-formed token string, and its time claims
\* stated on their own.
PayloadOf(tok) == Payloads[Split(tok)[2][1]]
Expired(p, t) == p.HasExp /\ t >= p.Exp
NotYetValid(p, t) == p.HasNbf /\ t < p.Nbf
Live(c) == call[c].jwt.Present /\ call[c].jwt.Token # << >>
Returned(c) == call[c].pc = "done"

\* C1: with verification enabled, extract returns claims for a token string
\* only if that exact string passed signature verification in this call or in
\* an earlier one.
C1_ClaimsOnlyForVerifiedToken ==
    \A c \in Callers :
        (jh.verify /\ Returned(c) /\ call[c].ret.Kind = "claims")
            => call[c].jwt.Token \in verified

\* C2: a cache hit skips only the signature check: the call still goes through
\* the parse, without resolving a keyset, and a token that is expired or not
\* yet valid when it is parsed is rejected with the parse error and no claims.
C2_HitStillValidatesTime ==
    \A c \in Callers :
        call[c].probe = "hit"
            => /\ ~call[c].resolved
               /\ Returned(c) => call[c].parsed
               /\ (call[c].parsed /\ WellFormed(Split(call[c].jwt.Token))
                   /\ (\/ Expired(PayloadOf(call[c].jwt.Token), call[c].parsedAt)
                       \/ NotYetValid(PayloadOf(call[c].jwt.Token), call[c].parsedAt)))
                  => (Returned(c) /\ call[c].ret = RetErr("ERR-260"))

C2_Witness ==
    \E c \in Callers :
        /\ call[c].probe = "hit"
        /\ call[c].parsed
        /\ Expired(PayloadOf(call[c].jwt.Token), call[c].parsedAt)
        /\ call[c].ret = RetErr("ERR-260")

\* The keyset of a request is determined by its keyset id being in the
\* registry or by the registry holding exactly one keyset.
Determined(keySets, id) ==
    \/ id # "" /\ id \in DOMAIN keySets
    \/ Cardinality(DOMAIN keySets) = 1

\* C3 as stated: with verification enabled, whatever the cache holds, extract
\* of a non-empty token whose keyset is not determined fails, before any parse.
C3_UndeterminedAlwaysFails ==
    \A c \in Callers :
        (jh.verify /\ Returned(c) /\ Live(c)
         /\ ~Determined(jh.keySets, call[c].jwt.KeySetId))
            => (call[c].ret.Kind = "error" /\ ~call[c].parsed)

\* C3 amended: the same, for every call whose cache probe was not a hit.
C3_UndeterminedFailsUnlessHit ==
    \A c \in Callers :
        (jh.verify /\ Live(c) /\ call[c].probe # "hit"
         /\ ~Determined(jh.keySets, call[c].jwt.KeySetId))
            => /\ ~call[c].parsed
               /\ call[c].pc \notin {"parse", "finish"}
               /\ Returned(c) => call[c].ret.Kind = "error"

C3_Witness ==
    \E c \in Callers :
        /\ jh.verify /\ Returned(c) /\ Live(c)
        /\ call[c].probe = "miss"
        /\ Cardinality(DOMAIN jh.keySets) = 2
        /\ call[c].jwt.KeySetId = ""
        /\ call[c].ret.Kind = "error"
        /\ ~call[c].parsed

\* A call that has gone through the keyset selection of parseOptions.
PastSelection(c) ==
    /\ jh.verify /\ Live(c) /\ call[c].probe # "hit"
    /\ call[c].pc \in {"parse", "finish", "done"}

\* C4: selection without a keyset id: a registry of exactly one keyset gives
\* that keyset, any other registry gives the NoKeySetToVerify error and no
\* keyset is resolved.
C4_SelectionWithoutId ==
    \A c \in Callers :
        (PastSelection(c) /\ call[c].jwt.KeySetId = "")
            => IF Cardinality(DOMAIN jh.keySets) = 1
               THEN call[c].resolved /\ DOMAIN jh.keySets = {call[c].ks}
               ELSE /\ call[c].ret = RetErr("ERR-256")
                    /\ ~call[c].resolved /\ call[c].ks = "none"

C4_Witness ==
    \E c \in Callers :
        /\ PastSelection(c) /\ call[c].jwt.KeySetId = ""
        /\ call[c].resolved /\ DOMAIN jh.keySets = {call[c].ks}
        /\ call[c].ret.Kind = "claims"

\* C5: selection with a keyset id: an id of the registry gives that keyset, an
\* id that is not in it gives the KeySetNotFound error and no other keyset.
C5_SelectionWithId ==
    \A c \in Callers :
        (PastSelection(c) /\ call[c].jwt.KeySetId # "")
            => IF call[c].jwt.KeySetId \in DOMAIN jh.keySets
               THEN call[c].resolved /\ call[c].ks = call[c].jwt.KeySetId
               ELSE /\ call[c].ret = RetErr("ERR-258")
                    /\ ~call[c].resolved /\ call[c].ks = "none"

C5_Witness ==
    \E c \in Callers :
        /\ PastSelection(c)
        /\ call[c].jwt.KeySetId = "ks2"
        /\ DOMAIN jh.keySets = {"ks1"}
        /\ call[c].ret = RetErr("ERR-258")
        /\ ~call[c].resolved

\* C6: extract of an absent JWT or of an empty token string returns no claims
\* and no error at once: it probes and records nothing in the cache, resolves
\* no keyset, fetches nothing and changes no counter or gauge.
C6_NoCredentialIsNoOp ==
    [][\A c \in Callers :
          (call[c].pc = "idle" /\ call'[c].pc # "idle" /\ ~Live(c)')
              => /\ call'[c].pc = "done"
                 /\ call'[c].ret = RetNil
                 /\ call'[c].probe = "none" /\ call'[c].ks = "none"
                 /\ ~call'[c].resolved /\ ~call'[c].parsed /\ ~call'[c].inserted
                 /\ UNCHANGED << cache, gauge, hits, misses, fetched, fetchFailed, writer >>]_vars

C6_Witness ==
    \E c \in Callers :
        /\ Returned(c)
        /\ call[c].jwt.Present /\ call[c].jwt.Token = << >>
        /\ call[c].jwt.KeySetId = "ks2"
        /\ call[c].ret = RetNil
        /\ jh.verify /\ DOMAIN cache.items # {}

\* C7: every entry of the verification cache expires no later than the exp
\* claim of the token whose extract call recorded it.
C7_EntryExpiryWithinTokenExp ==
    \A k \in DOMAIN cache.items :
        PayloadOf(writer[k]).HasExp => cache.items[k] <= PayloadOf(writer[k]).Exp

\* A token's verified extract has succeeded before this call began, and the
\* call has reached its cache probe.
LaterProbe(c) ==
    /\ jh.hasCache /\ call[c].seen /\ call[c].pc = "probe"
    /\ ~Expired(PayloadOf(call[c].jwt.Token), now)

\* The cache holds an entry under this call's key.
HoldsEntry(c) == MapHas(cache.items, call[c].cacheKey)

\* The cache holds the entry this call's token recorded.
HoldsOwnEntry(c) ==
    /\ MapHas(cache.items, call[c].cacheKey)
    /\ writer[call[c].cacheKey] = call[c].jwt.Token

\* What a later extract of a verified token does from a hit on: no keyset is
\* resolved, and a token still unexpired at the parse yields the claims of the
\* first call.
HitReplaysFirstCall(c) ==
    /\ (call[c].seen /\ call[c].probe = "hit" /\ call[c].pc = "parse"
        /\ ~Expired(PayloadOf(call[c].jwt.Token), now))
           => call'[c].pc \in {"parse", "finish"}
    /\ (call[c].seen /\ call[c].probe = "hit" /\ call[c].pc = "finish"
        /\ call'[c].pc # "finish")
           => /\ call'[c].ret = RetClaims(succeeded[call[c].jwt.Token])
              /\ ~call'[c].resolved

HoldsWellFormedClaims(m, p) ==
    \A i \in 1..Len(p.Claims) :
        (p.Claims[i].KeyIsString /\ ~ToStructPB(p.Claims[i].Value).Err)
            => /\ MapHas(m, p.Claims[i].Name)
               /\ m[p.Claims[i].Name] = ToStructPB(p.Claims[i].Value).Value

\* With verification disabled by the configuration: no keyset is registered,
\* selected or resolved and no keyset error is returned.
DisabledUsesNoKeySet ==
    /\ DOMAIN jh.keySets = {} /\ jh.jwkCaches = 0 /\ fetched = {}
    /\ \A c \in Callers :
          /\ ~call[c].resolved /\ call[c].ks = "none" /\ ~call[c].opts.Verify
          /\ call[c].ret.Err \notin {"ERR-256", "ERR-258", "ERR-259"}

\* C9 as stated: with verification disabled no keyset is used, a well-formed
\* non-expired token yields its claims without a signature check, and an
\* expired token is rejected.
C9_DisabledYieldsClaimsUnlessExpired ==
    (~conf.Nil /\ conf.DisableVerification)
        => /\ DisabledUsesNoKeySet
           /\ \A c \in Callers :
                 (call[c].parsed /\ WellFormed(Split(call[c].jwt.Token)))
                    => IF Expired(PayloadOf(call[c].jwt.Token), call[c].parsedAt)
                       THEN call[c].ret = RetErr("ERR-260")
                       ELSE /\ call[c].pc \in {"finish", "done"}
                            /\ Returned(c) =>
                                 /\ call[c].ret.Kind = "claims"
                                 /\ HoldsWellFormedClaims(call[c].ret.Claims,
                                                          PayloadOf(call[c].jwt.Token))

\* C9 amended: the token yields its claims when all its time claims hold at
\* the parse (not expired and not before its nbf), and is rejected otherwise.
C9_DisabledYieldsClaimsWhenTimeValid ==
    (~conf.Nil /\ conf.DisableVerification)
        => /\ DisabledUsesNoKeySet
           /\ \A c \in Callers :
                 (call[c].parsed /\ WellFormed(Split(call[c].jwt.Token)))
                    => IF \/ Expired(PayloadOf(call[c].jwt.Token), call[c].parsedAt)
                          \/ NotYetValid(PayloadOf(call[c].jwt.Token), call[c].parsedAt)
                       THEN call[c].ret = RetErr("ERR-260")
                       ELSE /\ call[c].pc \in {"finish", "done"}
                            /\ Returned(c) =>
                                 /\ call[c].ret.Kind = "claims"
                                 /\ HoldsWellFormedClaims(call[c].ret.Claims,
                                                          PayloadOf(call[c].jwt.Token))

C9_Witness ==
    \E c \in Callers :
        /\ ~conf.Nil /\ conf.DisableVerification
        /\ Returned(c)
        /\ call[c].jwt.Token = tF /\ call[c].jwt.KeySetId = "ks2"
        /\ call[c].ret.Kind = "claims"
        /\ HoldsWellFormedClaims(call[c].ret.Claims, Payloads["pF"])

\* The names of the claims of a payload that have a string key.
StringKeyed(p) == { p.Claims[i].Name : i \in { n \in 1..Len(p.Claims) : p.Claims[n].KeyIsString } }

\* A payload of one claim whose key is not a string and otherwise well-formed
\* claims only.
OneNonStringKey(p) ==
    /\ Cardinality({ i \in 1..Len(p.Claims) : ~p.Claims[i].KeyIsString }) = 1
    /\ \A i \in 1..Len(p.Claims) : ~ToStructPB(p.Claims[i].Value).Err

\* C10: for a parsed token of one claim with a non-string key and N well-formed
\* claims, extract returns exactly the N well-formed claims and no error.
C10_NonStringKeyClaimDropped ==
    \A c \in Callers :
        (Returned(c) /\ call[c].parsed /\ call[c].token.Ok
         /\ OneNonStringKey(Payloads[call[c].token.Payload]))
            => /\ call[c].ret.Kind = "claims"
               /\ DOMAIN call[c].ret.Claims = StringKeyed(Payloads[call[c].token.Payload])
               /\ HoldsWellFormedClaims(call[c].ret.Claims, Payloads[call[c].token.Payload])

\* (C8 with the weaker proviso that some entry is held under the token's
\* signature segment, whichever token recorded it.)
C8_LaterExtractHitsWhileAnyHeld ==
    [][\A c \in Callers :
          (LaterProbe(c) /\ HoldsEntry(c) /\ call'[c].pc # "probe")
              => call'[c].probe = "hit"]_vars

\* The configured source of the keyset registered under an id, and whether
\* the key material of a local source can be decoded, read and parsed.
SourceOf(id) ==
    conf.KeySets[CHOOSE i \in 1..Len(conf.KeySets) : conf.KeySets[i].ID = id]
MaterialOk(src) ==
    IF src.Data # ""
    THEN KeyData[src.Data].Decodes /\ KeyData[src.Data].Parses
    ELSE src.File \in DOMAIN KeyFiles /\ KeyFiles[src.File].Readable
MaterialOf(src) ==
    IF src.Data # "" THEN KeyData[src.Data].Keys ELSE KeyFiles[src.File].Keys

\* C11: every configured local keyset is registered whether or not its key
\* material could be decoded, read and parsed; a call that resolves one whose
\* material failed ends with the error stored at construction and never gets
\* key material, and a call that resolves one whose material was good gets
\* that material, also next to a failed keyset of the same registry.
C11_LocalKeySetReplaysConstruction ==
    jh.verify =>
        /\ \A i \in 1..Len(conf.KeySets) :
              conf.KeySets[i].Local.Set => MapHas(jh.keySets, conf.KeySets[i].ID)
        /\ \A c \in Callers :
              (call[c].resolved /\ jh.keySets[call[c].ks].Kind = "local")
                 => IF MaterialOk(SourceOf(call[c].ks).Local)
                    THEN /\ call[c].opts = WithKeySet(MaterialOf(SourceOf(call[c].ks).Local))
                         /\ call[c].ksErr = "none"
                         /\ call[c].ret.Err # "ERR-259"
                    ELSE /\ Returned(c)
                         /\ call[c].ret = RetErr("ERR-259")
                         /\ call[c].ksErr = jh.keySets[call[c].ks].Err
                         /\ call[c].ksErr \in {"ERR-261", "ERR-262", "ERR-263"}
                         /\ ~call[c].opts.Verify /\ ~call[c].parsed

C11_Witness ==
    \E c \in Callers :
        /\ Returned(c) /\ call[c].ks = "ks1" /\ call[c].ksErr = "ERR-262"
        /\ call[c].ret = RetErr("ERR-259")
        /\ MapHas(succeeded, tA)
        /\ started = 3

\* The place of an operation in the order probe, resolve, parse, insert.
Rank(op) == CASE op = "probe" -> 1 [] op = "resolve" -> 2 [] op = "parse" -> 3
              [] op = "insert" -> 4
Did(c, op) == \E i \in 1..Len(call[c].trace) : call[c].trace[i] = op

\* C12: a call makes at most one cache probe, one keyset resolution, one parse
\* and one cache insert, in that order; it resolves a keyset only with
\* verification enabled and a probe that was no hit, inserts only after a
\* successful parse, ends at once on a failure, and after at most these four
\* operations has returned claims, nothing or an error.
C12_PerCallStateMachine ==
    \A c \in Callers :
        /\ \A i, j \in 1..Len(call[c].trace) :
              i < j => Rank(call[c].trace[i]) < Rank(call[c].trace[j])
        /\ Did(c, "resolve") => (jh.verify /\ call[c].probe # "hit")
        /\ Did(c, "insert") => (Did(c, "parse") /\ call[c].token.Ok)
        /\ call[c].ret.Kind = "error" => (Returned(c) /\ ~Did(c, "insert") /\ ~call[c].token.Ok)
        /\ Returned(c) => call[c].ret.Kind \in {"nil", "claims", "error"}
        /\ Len(call[c].trace) <= 4
        /\ call[c].pc = "resolve" => call[c].trace = << "probe" >> \/ call[c].trace = << >>
        /\ call[c].pc = "parse" => ~Did(c, "parse") /\ ~Did(c, "insert")
        /\ call[c].pc = "finish" => Did(c, "parse") /\ ~Did(c, "insert") /\ call[c].token.Ok

C12_Witness ==
    \E c \in Callers :
        /\ Returned(c)
        /\ call[c].trace = << "probe", "resolve", "parse", "insert" >>
        /\ call[c].ret.Kind = "claims"

\* C13: a successful parse with a cache key records the key with the TTL
\* max(exp - now, 0), now read at the record, when the token carries exp, and
\* with the default TTL only when it carries none.
C13_TTLIsRemainingValidity ==
    [][\A c \in Callers :
          (call[c].pc = "finish" /\ call'[c].inserted)
              => LET p == Payloads[call[c].token.Payload]
                 IN  cache'.items[call[c].cacheKey]
                        = now + (IF p.HasExp THEN Max(p.Exp - now, 0)
                                 ELSE defaultCacheExpiry)]_vars

\* The signature segment of a token string: the text after its last '.',
\* nothing when it has no '.'.
SignatureSegment(tok) ==
    IF LastIndexByte(tok) = 0 THEN << >>
    ELSE SubSeq(tok, LastIndexByte(tok) + 1, Len(tok))

\* C14: a call derives a cache key, probes the cache and records in it only
\* when the cache is enabled and the signature segment of its token is not
\* empty: otherwise no key, no probe, no hit or miss counted, no entry.
C14_CacheKeyOnlyForSignature ==
    \A c \in Callers :
        (Live(c) /\ (~jh.hasCache \/ SignatureSegment(call[c].jwt.Token) = << >>))
            => /\ call[c].cacheKey = << >>
               /\ call[c].probe = "none"
               /\ ~Did(c, "probe")
               /\ ~call[c].inserted

\* No cache was built and no call has had anything to do with one.
NoCacheInUse ==
    /\ ~jh.hasCache
    /\ DOMAIN cache.items = {}
    /\ cache.t1 = << >> /\ cache.t2 = << >> /\ cache.b1 = << >> /\ cache.b2 = << >>
    /\ hits = 0 /\ misses = 0 /\ gauge = 0
    /\ \A c \in Callers :
          /\ call[c].cacheKey = << >>
          /\ call[c].probe = "none" /\ ~call[c].inserted
          /\ ~Did(c, "probe") /\ ~Did(c, "insert")

\* C15: with verification disabled no cache is built, whatever the capacity,
\* and no call probes it, records in it or counts a hit or a miss; with
\* verification enabled and a capacity of zero or less there is no cache
\* either, and every call for a non-empty token goes through the keyset
\* resolution and parses the token under signature verification.
C15_NoCacheWithoutVerifyOrCapacity ==
    /\ (~conf.Nil /\ conf.DisableVerification)
          => (~jh.verify /\ NoCacheInUse)
    /\ (~conf.Nil /\ ~conf.DisableVerification /\ conf.CacheSize <= 0)
          => /\ jh.verify /\ NoCacheInUse
             /\ \A c \in Callers :
                   (Live(c) /\ call[c].pc \in {"parse", "finish", "done"})
                      => IF call[c].resolved
                         THEN /\ call[c].ksErr = "none" => call[c].opts.Verify
                              /\ call[c].ksErr # "none" => call[c].ret = RetErr("ERR-259")
                              /\ call[c].ret.Kind = "claims"
                                    => VerifySignature(Split(call[c].jwt.Token),
                                                       call[c].opts.KeySet)
                         ELSE /\ ~call[c].parsed
                              /\ call[c].ret.Err \in {"ERR-256", "ERR-258"}

C15_Witness ==
    \E c \in Callers :
        /\ ~conf.Nil /\ ~conf.DisableVerification /\ conf.CacheSize <= 0
        /\ Returned(c) /\ call[c].seen
        /\ call[c].resolved /\ call[c].opts.Verify
        /\ call[c].ret.Kind = "claims"

\* A call that has ended in an error.
Failed(c) == Returned(c) /\ call[c].ret.Kind = "error"

\* C16 as stated: a call that ends in an error returns no claims and leaves
\* the entries of the verification cache and their expiries as they were when
\* it began.
C16_ErrorLeavesCacheUntouched ==
    \A c \in Callers :
        Failed(c) => (call[c].ret.Claims = EmptyMap /\ cache.items = call[c].before)

\* C16 amended: the same, except that the probe of the call may have dropped
\* the entry under the call's own key when that entry had already expired: no
\* entry is added, no expiry changes, no other entry leaves.
C16_ErrorOnlyPurgesOwnExpiredEntry ==
    \A c \in Callers :
        Failed(c)
            => /\ call[c].ret.Claims = EmptyMap
               /\ DOMAIN cache.items \subseteq DOMAIN call[c].before
               /\ \A k \in DOMAIN call[c].before :
                     IF k \in DOMAIN cache.items
                     THEN cache.items[k] = call[c].before[k]
                     ELSE /\ k = call[c].cacheKey /\ call[c].probe = "miss"
                          /\ call[c].before[k] < now

C16_Witness ==
    \E c \in Callers :
        /\ Failed(c) /\ call[c].parsed
        /\ call[c].before # << >>
        /\ call[c].cacheKey \in DOMAIN call[c].before
        /\ call[c].cacheKey \notin DOMAIN cache.items

\* C17: the cache size gauge equals the number of entries the verification
\* cache holds, whatever the calls have done: one increment for each entry
\* that enters, one decrement for each that leaves, none for a key recorded
\* again while it is held.
C17_GaugeCountsEntries ==
    gauge = Cardinality(DOMAIN cache.items)

\* The number of places a key has in a list of the cache.
Places(list, k) == Cardinality({ i \in 1..Len(list) : list[i] = k })

\* Both callers have been through an extract of the same token, which is well
\* formed, signed by a key of the keyset and valid when each of them parsed it.
BothExtracted(c, d) ==
    /\ c # d /\ Returned(c) /\ Returned(d)
    /\ Live(c) /\ call[c].jwt = call[d].jwt
    /\ WellFormed(Split(call[c].jwt.Token))
    /\ VerifySignature(Split(call[c].jwt.Token),
                       jh.keySets[SelectKeySet(jh.keySets, call[c].jwt.KeySetId).ID].Keys)
    /\ \A e \in {c, d} :
          /\ call[e].parsed
          /\ ~Expired(PayloadOf(call[e].jwt.Token), call[e].parsedAt)
          /\ ~NotYetValid(PayloadOf(call[e].jwt.Token), call[e].parsedAt)

\* C18: two concurrent extract calls for the same valid token both return
\* claims, the same claims, however their probes and records interleave; the
\* second record overwrites the first, and the cache then holds the signature
\* once.
C18_ConcurrentExtractsAgree ==
    \A c, d \in Callers :
        BothExtracted(c, d)
            => /\ call[c].ret.Kind = "claims" /\ call[d].ret.Kind = "claims"
               /\ call[c].ret.Claims = call[d].ret.Claims
               /\ call[c].inserted /\ call[d].inserted
               /\ call[c].cacheKey \in DOMAIN cache.items
               /\ Places(cache.t1, call[c].cacheKey) + Places(cache.t2, call[c].cacheKey) = 1
               /\ Places(cache.b1, call[c].cacheKey) + Places(cache.b2, call[c].cacheKey) = 0

C18_Witness ==
    \E c, d \in Callers :
        /\ BothExtracted(c, d)
        /\ call[c].cacheKey \notin DOMAIN call[c].before
        /\ call[d].cacheKey \notin DOMAIN call[d].before
        /\ call[c].probe = "miss" /\ call[d].probe = "miss"
        /\ call[c].inserted /\ call[d].inserted
        /\ call[c].ret.Kind = "claims" /\ call[d].ret = call[c].ret

\* The claims of a payload whose value converts, in the payload's order.
RECURSIVE Convertible(_)
Convertible(pairs) ==
    IF pairs = << >> THEN << >>
    ELSE IF ToStructPB(Head(pairs).Value).Err THEN Convertible(Tail(pairs))
    ELSE << Head(pairs) >> \o Convertible(Tail(pairs))

\* C19: for a successfully parsed token extract returns no error; a claim with
\* a string key whose value does not convert is not in the mapping, every
\* claim with a string key whose value converts is in it under its own name
\* with the converted value, and the mapping is the one the payload gives
\* without the claims that do not convert.
C19_ConversionFailureDropsOneClaim ==
    \A c \in Callers :
        (Returned(c) /\ call[c].parsed /\ call[c].token.Ok)
            => LET p == Payloads[call[c].token.Payload]
                   m == call[c].ret.Claims
               IN  /\ call[c].ret.Kind = "claims"
                   /\ \A i \in 1..Len(p.Claims) :
                         (p.Claims[i].KeyIsString /\ ToStructPB(p.Claims[i].Value).Err)
                            => ~MapHas(m, p.Claims[i].Name)
                   /\ HoldsWellFormedClaims(m, p)
                   /\ StringKeyed(p) = { p.Claims[i].Name : i \in 1..Len(p.Claims) }
                         => DOMAIN m = StringKeyed([Claims |-> Convertible(p.Claims)])
                   /\ \A k \in DOMAIN m :
                         \E i \in 1..Len(p.Claims) : m[k] = ToStructPB(p.Claims[i].Value).Value

C19_Witness ==
    \E c \in Callers :
        /\ Returned(c) /\ call[c].parsed /\ call[c].token.Payload = "pB"
        /\ call[c].ret = RetClaims(("sub" :> [Kind |-> "string", Str |-> "u2"]))

\* The keyset the selection of parseOptions gives the call is a remote one.
SelectsRemote(c) ==
    /\ SelectKeySet(jh.keySets, call[c].jwt.KeySetId).Err = "none"
    /\ jh.keySets[SelectKeySet(jh.keySets, call[c].jwt.KeySetId).ID].Kind = "remote"
URLOf(c) == jh.keySets[SelectKeySet(jh.keySets, call[c].jwt.KeySetId).ID].URL

\* C20: a call whose remote keyset fetch fails returns the fetch error and
\* records nothing: no parse, no cache entry, no key material held for the
\* URL.  A later call for the same token that comes to resolve the keyset can
\* fetch again and go on to parse.  A local keyset that failed at construction
\* gives its error to every call that resolves it.
C20_FetchFailureNotRemembered ==
    \A c \in Callers :
        /\ (Returned(c) /\ call[c].ksErr = "fetch")
              => /\ call[c].ret = RetErr("ERR-259")
                 /\ ~call[c].parsed /\ ~call[c].inserted
                 /\ call[c].cacheKey \notin DOMAIN cache.items
                 /\ URLOf(c) \notin fetched
                 /\ << URLOf(c), call[c].jwt.Token >> \in fetchFailed
        /\ (/\ call[c].pc = "resolve" /\ SelectsRemote(c)
            /\ << URLOf(c), call[c].jwt.Token >> \in fetchFailed)
              => ENABLED (Resolve(c) /\ call'[c].pc = "parse")
        /\ (/\ call[c].resolved /\ jh.keySets[call[c].ks].Kind = "local"
            /\ jh.keySets[call[c].ks].Err # "none")
              => /\ Returned(c) /\ call[c].ret = RetErr("ERR-259")
                 /\ call[c].ksErr = jh.keySets[call[c].ks].Err

C20_Witness ==
    \E c \in Callers :
        /\ Returned(c) /\ call[c].resolved
        /\ jh.keySets[call[c].ks].Kind = "remote"
        /\ << jh.keySets[call[c].ks].URL, call[c].jwt.Token >> \in fetchFailed
        /\ call[c].ret.Kind = "claims" /\ call[c].inserted

\* The positions of the configured keysets that have a remote source, and the
\* refresh interval a remote source is to be registered with (0: the default
\* cadence).
RemoteConfigured == { i \in 1..Len(conf.KeySets) : conf.KeySets[i].Remote.Set }
CadenceOf(src) == IF src.RefreshInterval > 0 THEN src.RefreshInterval ELSE 0
FirstRemote == CHOOSE i \in RemoteConfigured : \A j \in RemoteConfigured : i <= j
CacheWanted == ~conf.Nil /\ ~conf.DisableVerification /\ RemoteConfigured # {}

\* C21: building the helper creates at most one shared refresh cache, and one
\* only when verification is enabled and a configured keyset has a remote
\* source, at the first such keyset; every remote keyset holds that one cache,
\* is registered with it under its URL with its configured refresh interval
\* when positive and the default cadence otherwise, and resolves through it;
\* with local keysets only, without configuration or with verification
\* disabled there is none and nothing is registered.
C21_OneSharedRefreshCache ==
    /\ jh.jwkCaches <= 1
    /\ jh.jwkCaches = 1 <=> CacheWanted
    /\ IF CacheWanted
       THEN /\ jh.cacheFor = conf.KeySets[FirstRemote].ID
            /\ \A i \in RemoteConfigured :
                  LET ks == conf.KeySets[i]
                  IN  /\ MapHas(jh.keySets, ks.ID)
                      /\ jh.keySets[ks.ID] = remoteKeySet(1, ks.Remote.URL)
                      /\ [URL |-> ks.Remote.URL, Interval |-> CadenceOf(ks.Remote)]
                            \in jh.registered
            /\ jh.registered =
                  { [URL |-> conf.KeySets[i].Remote.URL,
                     Interval |-> CadenceOf(conf.KeySets[i].Remote)] : i \in RemoteConfigured }
       ELSE /\ jh.cacheFor = "" /\ jh.registered = {} /\ fetched = {}
            /\ \A id \in DOMAIN jh.keySets : jh.keySets[id].Kind = "local"
    /\ \A u \in fetched : \E r \in jh.registered : r.URL = u
    /\ \A c \in Callers :
          (call[c].resolved /\ jh.keySets[call[c].ks].Kind = "remote"
           /\ call[c].ksErr = "none")
              => /\ jh.keySets[call[c].ks].Cache = 1
                 /\ jh.keySets[call[c].ks].URL \in fetched
                 /\ call[c].opts = WithKeySet(RemoteKeys[jh.keySets[call[c].ks].URL])

C21_Witness ==
    \E c \in Callers :
        /\ Len(conf.KeySets) = 2 /\ RemoteConfigured = {1, 2}
        /\ conf.KeySets[1].Remote.URL # conf.KeySets[2].Remote.URL
        /\ jh.jwkCaches = 1
        /\ Cardinality(jh.registered) = 2
        /\ fetched = {"u1", "u2"}
        /\ Returned(c) /\ call[c].resolved /\ call[c].ks = "ks2"

\* The key material a registered keyset verifies with.
KeyMaterial(id) ==
    IF jh.keySets[id].Kind = "local" THEN jh.keySets[id].Keys
    ELSE RemoteKeys[jh.keySets[id].URL]

\* C22: with verification enabled and two or more keysets registered, a call
\* that names a keyset returns claims only for a token whose signature
\* verifies against the key material of that keyset, whatever was verified
\* under another keyset before.
C22_KeySetIsolation ==
    \A c \in Callers :
        (/\ jh.verify /\ Cardinality(DOMAIN jh.keySets) >= 2
         /\ Returned(c) /\ call[c].ret.Kind = "claims"
         /\ call[c].jwt.KeySetId \in DOMAIN jh.keySets)
            => /\ WellFormed(Split(call[c].jwt.Token))
               /\ VerifySignature(Split(call[c].jwt.Token),
                                  KeyMaterial(call[c].jwt.KeySetId))

====
